---- MODULE Spec2Model ----
(***************************************************************************)
(* go-gitfamous: the paginated fetch of a user's GitHub events             *)
(* (cmd/tui.go, fetchEvents) and the tabbed multi-user dashboard           *)
(* (multiUserModel: Init, fetchEventsForUser, Update, setupTableForTab).   *)
(*                                                                         *)
(* SpecFetch runs one call of fetchEvents step by step against a remote    *)
(* source chosen in FetchInit.  SpecDash runs the dashboard as the         *)
(* bubbletea runtime drives it; SpecUpdate is SpecDash with a runtime that *)
(* may also deliver any further completion message to Update.              *)
(***************************************************************************)
EXTENDS Integers, Sequences, FiniteSets, TLC

\* ------------------------------------------------------------------ bounds
\* Events the remote source holds at most.
MaxEvents == 3
\* Events per page of the remote source (the last page may be shorter).
PageSize == 2
\* Event timestamps are 0..MaxTime; the clock starts at MaxTime.
MaxTime == 2
\* The result cap (count) is drawn from 0..MaxCount.
MaxCount == 2
\* The one non-zero lookback (since) that is tried beside 0.
Lookback == 1
\* The dashboard has 1..MaxTabs tabs.
MaxTabs == 2
\* Completion messages the runtime may deliver beyond the one of each fetch.
MaxLate == 1

VARIABLES
    \* ---- fetchEvents: its parameters and the remote source
    src,           \* the source's events in source order, cut into pages of PageSize
    count,         \* parameter count (the cap; 0 = none)
    since,         \* parameter since (the lookback; 0 = none)
    filterTypes,   \* parameter filterTypes (empty = all types)
    \* ---- fetchEvents: its locals
    pc,            \* "request" | "scan" | "pageEnd" | "done" | "idle"
    page,          \* opt.Page (0 on the first request)
    events,        \* the page returned by the last request
    nextPage,      \* resp.NextPage of the last request (0 = none)
    idx,           \* position of the range loop in events
    allEvents,     \* the accepted raw events
    fetchedCount,  \* the accepted-event counter
    now,           \* the clock read by time.Now()
    ret,           \* the returned (events, err)
    requested,     \* the page numbers requested from the source, in order
    cutoffHit,     \* history: the lookback break (tui.go 220-221) has fired
    \* ---- the dashboard (multiUserModel and the runtime around it)
    tabs,          \* m.tabs
    activeTab,     \* m.activeTab
    started,       \* the runtime has called Init
    running,       \* tab indices whose fetch command has not returned yet
    queue,         \* completion messages produced and not yet handled
    quitSent,      \* Update has returned tea.Quit; its QuitMsg is on the way
    quit,          \* the runtime has taken the QuitMsg: the session is over
    crashed,       \* Update has panicked
    late,          \* completion messages sent beyond the one of each fetch
    opened,        \* the URL last handed to openURL ("" = none yet)
    termWidth,     \* the terminal's width (NoTerminal: term.GetSize fails)
    \* ---- the layout step taken alone
    layRows,       \* the events laid out
    layOut,        \* the layouts computed so far, in order
    \* ---- parseExtendedDuration called alone
    input,         \* its argument: a string as the sequence of its characters
    parsed,        \* what it returned for input
    parsedTrim,    \* what it returned for the trimmed input
    \* ---- startup: from the command line to the first fetches
    cmdMode,       \* "single" (a username argument) | "multi" (the config file)
    githubToken,   \* the --api flag's variable
    env,           \* the environment's GITHUB_TOKEN and GITHUB_API_TOKEN
    users,         \* config.Users: the token configured for each account
    phase,         \* "start" | "exit" | "built" | "running" | "idle"
    apiTokens,     \* the apiToken of the model resp. of each tab
    fetches,       \* the fetches started: the account's position and the token used
    \* ---- the single-user model (its runtime state is the dashboard's)
    model          \* the model m: events, table, err, tableHeight

fetchVars == <<src, count, since, filterTypes, pc, page, events, nextPage, idx,
               allEvents, fetchedCount, now, ret, requested, cutoffHit>>
dashVars == <<tabs, activeTab, started, running, queue, quitSent, quit, crashed,
              late, opened, termWidth>>
layoutVars == <<layRows, layOut>>
parseVars == <<input, parsed, parsedTrim>>
startVars == <<cmdMode, githubToken, env, users, phase, apiTokens, fetches>>
singleVars == <<model>>
toolVars == <<layoutVars, parseVars, startVars, singleVars>>
vars == <<fetchVars, dashVars, toolVars>>

\* ------------------------------------------------------------- raw events
EventTypes == {"PushEvent", "ForkEvent"}
RawEvents == [ts : 0..MaxTime, type : EventTypes]
FilterChoices == {<<>>, <<"PushEvent">>}
Lookbacks == {0, Lookback}

SeqsUpTo(S, n) == UNION {[1..k -> S] : k \in 0..n}

Min(a, b) == IF a < b THEN a ELSE b

\* ------------------------------------------------------ the remote source
\* Page numbers start at 1; a request for page 0 is served as page 1.
PageNo(p) == IF p = 0 THEN 1 ELSE p

NumPages == IF Len(src) = 0 THEN 1 ELSE (Len(src) + PageSize - 1) \div PageSize

\* The events of page p of the source.
PageOf(p) ==
    LET first == (PageNo(p) - 1) * PageSize + 1
        last == Min(PageNo(p) * PageSize, Len(src))
    IN  SubSeq(src, first, last)

\* The continuation the source reports with page p: the next page, 0 at the end.
NextPageOf(p) == IF PageNo(p) < NumPages THEN PageNo(p) + 1 ELSE 0

\* --------------------------------------------------- fetchEvents' conditions
\* tui.go 219-220: since > 0 and the event was created before now - since.
OlderBrokenInclusive(e) == since > 0 /\ e.ts <= now - since
OlderBrokenNever(e) == FALSE
Older(e) == since > 0 /\ e.ts < now - since

\* slices.Contains(filterTypes, t)
Contains(s, t) == \E i \in 1..Len(s) : s[i] = t

\* tui.go 224-226: negated, the event passes the type filter.
AllowedBrokenAll(e) == TRUE
Allowed(e) == Len(filterTypes) = 0 \/ Contains(filterTypes, e.type)

\* tui.go 231 and 236: 0 < count && fetchedCount >= count
CapReachedBrokenOffByOne(n) == 0 < count /\ n > count
CapReached(n) == 0 < count /\ n >= count

\* tui.go 236: the loop is left when the cap is reached or no page is left.
LoopExitBrokenNoCap(n) == nextPage = 0
LoopExit(n) == CapReached(n) \/ nextPage = 0

\* tui.go 229: allEvents = append(allEvents, event)
AcceptedBrokenPrepend(all, e) == <<e>> \o all
Accepted(all, e) == Append(all, e)

\* tui.go 244-253: the item made of an accepted event.  humanize.Time renders
\* the timestamp relative to the clock.
ItemOf(e, t) == [Date |-> <<"ago", t - e.ts>>, Type |-> e.type]
Items(all, t) == [i \in 1..Len(all) |-> ItemOf(all[i], t)]

Nil == "nil"
SourceUnavailable == "SourceUnavailable"
NoResults == "NoResults"

\* ------------------------------------------------------------ fetchEvents
FetchInit ==
    /\ src \in SeqsUpTo(RawEvents, MaxEvents)
    /\ count \in 0..MaxCount
    /\ since \in Lookbacks
    /\ filterTypes \in FilterChoices
    /\ pc = "request"
    /\ page = 0
    /\ events = <<>>
    /\ nextPage = 0
    /\ idx = 1
    /\ allEvents = <<>>
    /\ fetchedCount = 0
    /\ now = MaxTime
    /\ ret = [events |-> <<>>, err |-> Nil]
    /\ requested = <<>>
    /\ cutoffHit = FALSE

\* Time passes while fetchEvents runs.
Tick ==
    /\ pc \in {"request", "scan", "pageEnd"}
    /\ now < MaxTime + 1
    /\ now' = now + 1
    /\ UNCHANGED <<src, count, since, filterTypes, pc, page, events, nextPage,
                   idx, allEvents, fetchedCount, ret, requested, cutoffHit>>

\* tui.go 214: ListEventsPerformedByUser returns a page.
RequestPage ==
    /\ pc = "request"
    /\ requested' = Append(requested, PageNo(page))
    /\ events' = PageOf(page)
    /\ nextPage' = NextPageOf(page)
    /\ idx' = 1
    /\ pc' = "scan"
    /\ UNCHANGED <<src, count, since, filterTypes, page, allEvents,
                   fetchedCount, now, ret, cutoffHit>>

\* tui.go 215-217: what fetchEvents returns when the request fails.
FailureReturnBrokenPartial == [events |-> Items(allEvents, now), err |-> SourceUnavailable]
FailureReturn == [events |-> <<>>, err |-> SourceUnavailable]

\* tui.go 214-217: the request fails; fetchEvents returns nil and the error.
RequestFails ==
    /\ pc = "request"
    /\ requested' = Append(requested, PageNo(page))
    /\ ret' = FailureReturn
    /\ pc' = "done"
    /\ UNCHANGED <<src, count, since, filterTypes, page, events, nextPage, idx,
                   allEvents, fetchedCount, now, cutoffHit>>

\* tui.go 218-234: one iteration of the range loop over the page.
ScanEvent ==
    /\ pc = "scan"
    /\ idx <= Len(events)
    /\ LET e == events[idx] IN
       IF Older(e)
       THEN \* break
            /\ pc' = "pageEnd"
            /\ cutoffHit' = TRUE
            /\ UNCHANGED <<idx, allEvents, fetchedCount>>
       ELSE IF ~Allowed(e)
       THEN \* continue
            /\ idx' = idx + 1
            /\ UNCHANGED <<pc, allEvents, fetchedCount, cutoffHit>>
       ELSE /\ allEvents' = Accepted(allEvents, e)
            /\ fetchedCount' = fetchedCount + 1
            /\ IF CapReached(fetchedCount + 1)
               THEN pc' = "pageEnd" /\ idx' = idx
               ELSE pc' = "scan" /\ idx' = idx + 1
            /\ UNCHANGED cutoffHit
    /\ UNCHANGED <<src, count, since, filterTypes, page, events, nextPage, now,
                   ret, requested>>

\* tui.go 218: the range loop has run off the end of the page.
ScanEnd ==
    /\ pc = "scan"
    /\ idx > Len(events)
    /\ pc' = "pageEnd"
    /\ UNCHANGED <<src, count, since, filterTypes, page, events, nextPage, idx,
                   allEvents, fetchedCount, now, ret, requested, cutoffHit>>

\* tui.go 236-239: no break, so the next page is asked for.
NextPage ==
    /\ pc = "pageEnd"
    /\ ~LoopExit(fetchedCount)
    /\ page' = nextPage
    /\ pc' = "request"
    /\ UNCHANGED <<src, count, since, filterTypes, events, nextPage, idx,
                   allEvents, fetchedCount, now, ret, requested, cutoffHit>>

\* tui.go 242-259: what fetchEvents returns once the loop is left.
ReturnedBrokenEmptySuccess(all, t) == [events |-> Items(all, t), err |-> Nil]
Returned(all, t) ==
    IF Len(all) = 0
    THEN [events |-> <<>>, err |-> NoResults]
    ELSE [events |-> Items(all, t), err |-> Nil]

\* tui.go 236-238 and 242-259: the loop is left, the accepted events are
\* turned into items and returned; no item is an error.
Finish ==
    /\ pc = "pageEnd"
    /\ LoopExit(fetchedCount)
    /\ ret' = Returned(allEvents, now)
    /\ pc' = "done"
    /\ UNCHANGED <<src, count, since, filterTypes, page, events, nextPage, idx,
                   allEvents, fetchedCount, now, requested, cutoffHit>>

\* The dashboard is not running while one call of fetchEvents is followed.
DashOff ==
    /\ tabs = <<>>
    /\ activeTab = 0
    /\ started = FALSE
    /\ running = {}
    /\ queue = {}
    /\ quitSent = FALSE
    /\ quit = FALSE
    /\ crashed = FALSE
    /\ opened = ""
    /\ late = 0

DashIdle == DashOff /\ termWidth = 0

FetchNext ==
    \/ (Tick /\ UNCHANGED <<dashVars, toolVars>>)
    \/ (RequestPage /\ UNCHANGED <<dashVars, toolVars>>)
    \/ (RequestFails /\ UNCHANGED <<dashVars, toolVars>>)
    \/ (ScanEvent /\ UNCHANGED <<dashVars, toolVars>>)
    \/ (ScanEnd /\ UNCHANGED <<dashVars, toolVars>>)
    \/ (NextPage /\ UNCHANGED <<dashVars, toolVars>>)
    \/ (Finish /\ UNCHANGED <<dashVars, toolVars>>)

\* The layout step is not taken alone.
LayoutIdle == layRows = <<>> /\ layOut = <<>>

\* No call of parseExtendedDuration has been made.
NotParsed == [duration |-> <<>>, err |-> "not called"]

\* parseExtendedDuration is not called alone.
ParseIdle == input = <<>> /\ parsed = NotParsed /\ parsedTrim = NotParsed

\* The startup is not followed.
StartIdle ==
    /\ cmdMode = "idle"
    /\ githubToken = ""
    /\ env = [GITHUB_TOKEN |-> "", GITHUB_API_TOKEN |-> ""]
    /\ users = <<>>
    /\ phase = "idle"
    /\ apiTokens = <<>>
    /\ fetches = {}

\* The zero value of table.Model.
NoTable == [rows |-> <<>>, cols |-> <<>>, height |-> 0, cursor |-> 0, focus |-> FALSE]

\* tui.go 56-64: the model as initialModel makes it.
NewModel == [events |-> <<>>, table |-> NoTable, err |-> Nil, tableHeight |-> 0]

\* The single-user program is not running.
SingleIdle == model = NewModel

\* Nothing but the fetch or the dashboard runs.
ToolsIdle == LayoutIdle /\ ParseIdle /\ StartIdle /\ SingleIdle

InitFetch == FetchInit /\ DashIdle /\ ToolsIdle

SpecFetch == InitFetch /\ [][FetchNext]_vars

\* ---------------------------------------------------------- the dashboard
TabLoading == "TabLoading"
TabLoaded == "TabLoaded"
TabError == "TabError"

\* Rendered items as fetchEvents hands them to the dashboard: the fields the
\* dashboard reads (Date, Repository.Name, Description).
ItemA == [Date |-> "now", Repository |-> "org/repo", Description |-> "pushed 1 commit"]
ItemB == [Date |-> "2 days ago", Repository |-> "a/b", Description |-> "forked"]
EventLists == {<<ItemA>>, <<ItemB, ItemA>>}

\* What a call of fetchEvents returns (tui.go 216, 256, 259): an error and no
\* events, or events and no error.
FetchResults ==
    {[events |-> l, err |-> Nil] : l \in EventLists}
    \cup {[events |-> <<>>, err |-> e] : e \in {SourceUnavailable, NoResults}}

\* fetchEventsForUserMsg
CompletionMsg(i, r) == [userIndex |-> i, events |-> r.events, err |-> r.err]

NumTabs == Cardinality(DOMAIN tabs)

NoTerminal == -1
TermWidths == {NoTerminal, 30, 100}

DefaultWidth == 80
Spacing == 4
TabBarSpace == 20
MinDescWidth == 20
MaxTableHeight == 25

Max(a, b) == IF a > b THEN a ELSE b

\* part_001 137-138, tui.go 120-121: slices.Max panics on an empty slice.
LayoutPanics(evs) == Len(evs) = 0

\* slices.Max over the lengths of one field of the events
RECURSIVE MaxLen(_, _)
MaxLen(evs, field) ==
    IF Len(evs) = 1 THEN Len(evs[1][field])
    ELSE Max(Len(evs[1][field]), MaxLen(Tail(evs), field))

\* part_001 132-135: the width the layout reads.
Width == IF termWidth = NoTerminal THEN DefaultWidth ELSE termWidth

\* part_001 137-144: the width of the Description column.
DescWidthBrokenNoFloor(evs) ==
    Width - MaxLen(evs, "Date") - MaxLen(evs, "Repository")
    - Spacing - Spacing * 3 - TabBarSpace
DescWidth(evs) ==
    LET rightPadding == Spacing * 3
        descWidth == Width - MaxLen(evs, "Date") - MaxLen(evs, "Repository")
                     - Spacing - rightPadding - TabBarSpace
    IN  IF descWidth < MinDescWidth THEN MinDescWidth ELSE descWidth

\* part_001 152-155
TableHeight(evs) ==
    IF Len(evs) + 1 > MaxTableHeight THEN MaxTableHeight ELSE Len(evs) + 1

\* part_001 157-162: table.New with the columns, the rows, focus and height.
NewTable(evs) ==
    [rows |-> [i \in 1..Len(evs) |->
                  <<evs[i].Date, evs[i].Repository, evs[i].Description>>],
     cols |-> <<MaxLen(evs, "Date") + Spacing,
                MaxLen(evs, "Repository") + Spacing,
                DescWidth(evs)>>,
     height |-> TableHeight(evs),
     cursor |-> 0,
     focus |-> TRUE]

\* part_001 116-178
setupTableForTab(tab) ==
    [tab EXCEPT !.tableHeight = TableHeight(tab.events),
                !.table = NewTable(tab.events)]

\* part_001 26-32: a tab as initialMultiUserModel makes it.
NewTab == [state |-> TabLoading, events |-> <<>>, err |-> Nil,
           table |-> NoTable, tableHeight |-> 0]

\* part_001 15-46
DashInit ==
    /\ \E n \in 1..MaxTabs : tabs = [i \in 0..(n - 1) |-> NewTab]
    /\ activeTab = 0
    /\ started = FALSE
    /\ running = {}
    /\ queue = {}
    /\ quitSent = FALSE
    /\ quit = FALSE
    /\ crashed = FALSE
    /\ opened = ""
    /\ late = 0
    /\ termWidth \in TermWidths

\* The runtime's event loop hands messages to Update: from its call of Init
\* until it takes a QuitMsg or Update panics, whatever fetch is still running.
HandlingBrokenAfterQuit == started /\ ~crashed
HandlingBrokenWaitsForFetches == started /\ ~quit /\ ~crashed /\ running = {}
Handling == started /\ ~quit /\ ~crashed

\* part_001 51-53: the tabs Init starts a fetch command for.
DispatchedBrokenActiveOnly == {activeTab}
Dispatched == DOMAIN tabs

\* part_001 48-55: the runtime calls Init, which starts one fetch per tab.
Init ==
    /\ ~started
    /\ started' = TRUE
    /\ running' = Dispatched
    /\ UNCHANGED <<late, quitSent, crashed, tabs, activeTab, queue, quit, opened, termWidth>>

\* part_001 57-67: the command of tab userIndex returns its message.
fetchEventsForUser(userIndex) ==
    /\ userIndex \in running
    /\ \E r \in FetchResults :
           queue' = queue \cup {CompletionMsg(userIndex, r)}
    /\ running' = running \ {userIndex}
    /\ UNCHANGED <<late, quitSent, crashed, tabs, activeTab, started, quit, opened, termWidth>>

\* part_001 73-75: the tab of a failed fetch.
FailedTab(tab, msg) == [tab EXCEPT !.err = msg.err, !.state = TabError]

\* part_001 76-80: the tab of a successful fetch.
LoadedTabBrokenNoTable(tab, msg) ==
    [tab EXCEPT !.events = msg.events, !.state = TabLoaded]
LoadedTab(tab, msg) ==
    setupTableForTab([tab EXCEPT !.events = msg.events, !.state = TabLoaded])

\* part_001 72: the tab the message is applied to.
TargetBrokenActive(msg) == activeTab
Target(msg) == msg.userIndex

\* part_001 71-82: the tabs ts after a fetchEventsForUserMsg for one of them.
ApplyCompletionBrokenFailsAllLoading(ts, msg) ==
    IF msg.err # Nil
    THEN [i \in DOMAIN ts |->
             IF i = Target(msg) \/ ts[i].state = TabLoading
             THEN FailedTab(ts[i], msg) ELSE ts[i]]
    ELSE [ts EXCEPT ![Target(msg)] = LoadedTab(@, msg)]
ApplyCompletion(ts, msg) ==
    [ts EXCEPT ![Target(msg)] =
        IF msg.err # Nil THEN FailedTab(@, msg) ELSE LoadedTab(@, msg)]

\* part_001 72-80: the index passes the test userIndex < len(m.tabs) and is
\* no index of m.tabs: indexing the slice panics; and so does the layout of
\* no events.
Panics(msg) ==
    /\ Target(msg) < NumTabs
    /\ \/ Target(msg) < 0
       \/ (msg.err = Nil /\ LayoutPanics(msg.events))

\* part_001 71-82: m.tabs after Update has handled a fetchEventsForUserMsg.
TabsAfterBrokenDropsMessage(msg) == tabs
TabsAfter(msg) ==
    IF Target(msg) < NumTabs /\ ~Panics(msg)
    THEN ApplyCompletion(tabs, msg)
    ELSE tabs

\* part_001 69-82: Update handles the completion message msg.
UpdateFetchEventsForUserMsg(msg) ==
    /\ Handling
    /\ msg \in queue
    /\ queue' = queue \ {msg}
    /\ tabs' = TabsAfter(msg)
    /\ crashed' = Panics(msg)
    /\ UNCHANGED <<late, quitSent, activeTab, started, running, quit, opened,
                   termWidth>>

\* part_001 86-87: Update returns tea.Quit, the command that sends the QuitMsg.
UpdateKeyQuit ==
    /\ Handling
    /\ quitSent' = TRUE
    /\ UNCHANGED <<late, quit, crashed, tabs, activeTab, started, running, queue,
                   opened, termWidth>>

\* part_001 87: the runtime takes the QuitMsg of tea.Quit and ends the session.
QuitMsgTaken ==
    /\ quitSent /\ ~quit /\ ~crashed
    /\ quit' = TRUE
    /\ UNCHANGED <<late, quitSent, crashed, tabs, activeTab, started, running,
                   queue, opened, termWidth>>

\* part_001 89-91
TabLeft(a) == IF a > 0 THEN a - 1 ELSE a

\* part_001 94-96
TabRightBrokenWraps(a) == (a + 1) % NumTabs
TabRight(a) == IF a < NumTabs - 1 THEN a + 1 ELSE a

\* part_001 88-92
UpdateKeyLeft ==
    /\ Handling
    /\ activeTab' = TabLeft(activeTab)
    /\ UNCHANGED <<late, quitSent, crashed, tabs, started, running, queue, quit, opened, termWidth>>

\* part_001 93-97
UpdateKeyRight ==
    /\ Handling
    /\ activeTab' = TabRight(activeTab)
    /\ UNCHANGED <<late, quitSent, crashed, tabs, started, running, queue, quit, opened, termWidth>>

\* table.Model.SelectedRow: the row under the cursor, none outside the rows.
HasSelectedRow(t) == t.cursor >= 0 /\ t.cursor < Len(t.rows)
SelectedRow(t) == t.rows[t.cursor + 1]

\* part_001 238: the URL of a row; the repository name is its second cell.
RepoURLBrokenFirstCell(row) == "https://github.com/" \o row[1]
RepoURL(row) == "https://github.com/" \o row[2]

\* part_001 98-102 and 227-243
UpdateKeyEnter ==
    /\ Handling
    /\ opened' = IF /\ activeTab < NumTabs
                    /\ tabs[activeTab].state = TabLoaded
                    /\ HasSelectedRow(tabs[activeTab].table)
                 THEN RepoURL(SelectedRow(tabs[activeTab].table))
                 ELSE opened
    /\ UNCHANGED <<late, quitSent, crashed, tabs, activeTab, started, running, queue, quit, termWidth>>

\* table.Model.Update on a key: up and down move the cursor inside the rows
\* of a focused table.
TableKeys == {"up", "down"}
TableUpdateKey(t, key) ==
    IF ~t.focus THEN t
    ELSE IF key = "up" THEN [t EXCEPT !.cursor = Max(t.cursor - 1, 0)]
    ELSE IF key = "down" THEN [t EXCEPT !.cursor = Min(t.cursor + 1, Len(t.rows) - 1)]
    ELSE t

\* part_001 107-109: the tab whose table gets the message.
ForwardTargetBrokenNextTab == (activeTab + 1) % NumTabs
ForwardTarget == activeTab

\* part_001 106-113: any other key goes to the active tab's table when the
\* tab is loaded.
UpdateKeyOther(key) ==
    /\ Handling
    /\ tabs' = IF ForwardTarget < NumTabs /\ tabs[ForwardTarget].state = TabLoaded
               THEN [tabs EXCEPT ![ForwardTarget].table = TableUpdateKey(@, key)]
               ELSE tabs
    /\ UNCHANGED <<late, quitSent, crashed, activeTab, started, running, queue, quit, opened, termWidth>>

\* The terminal is resized to width w; Update gets the tea.WindowSizeMsg, which is no
\* case of its switch and which table.Model.Update ignores (part_001 106-113).
UpdateWindowSize(w) ==
    /\ Handling
    /\ w # NoTerminal
    /\ w # termWidth
    /\ termWidth' = w
    /\ UNCHANGED <<late, quitSent, crashed, tabs, activeTab, started, running, queue, quit, opened>>

\* part_001 201-224: what View renders below the tab bar.
View ==
    IF activeTab >= NumTabs THEN "No active tab"
    ELSE IF tabs[activeTab].state = TabLoading THEN "Loading events"
    ELSE IF tabs[activeTab].state = TabError THEN "Error loading events"
    ELSE IF Len(tabs[activeTab].events) = 0 THEN "No events found"
    ELSE "table"

\* A completion message beyond the one of each fetch reaches the runtime: at most
\* MaxLate of them, each for a tab that has left TabLoading or for an index past the tabs.
SendLate(msg) ==
    /\ started /\ ~quit /\ ~crashed
    /\ late < MaxLate
    /\ msg.userIndex \in DOMAIN tabs => tabs[msg.userIndex].state # TabLoading
    /\ \A q \in queue : q.userIndex # msg.userIndex
    /\ late' = late + 1
    /\ queue' = queue \cup {msg}
    /\ UNCHANGED <<tabs, activeTab, started, running, quitSent, quit, crashed,
                   opened, termWidth>>

\* No call of fetchEvents is followed step by step while the dashboard runs.
FetchIdle ==
    /\ src = <<>>
    /\ count = 0
    /\ since = 0
    /\ filterTypes = <<>>
    /\ pc = "idle"
    /\ page = 0
    /\ events = <<>>
    /\ nextPage = 0
    /\ idx = 1
    /\ allEvents = <<>>
    /\ fetchedCount = 0
    /\ now = MaxTime
    /\ ret = [events |-> <<>>, err |-> Nil]
    /\ requested = <<>>
    /\ cutoffHit = FALSE

DashNext ==
    \/ (Init /\ UNCHANGED <<fetchVars, toolVars>>)
    \/ (\E i \in DOMAIN tabs : fetchEventsForUser(i) /\ UNCHANGED <<fetchVars, toolVars>>)
    \/ (\E msg \in queue : UpdateFetchEventsForUserMsg(msg) /\ UNCHANGED <<fetchVars, toolVars>>)
    \/ (UpdateKeyQuit /\ UNCHANGED <<fetchVars, toolVars>>)
    \/ (QuitMsgTaken /\ UNCHANGED <<fetchVars, toolVars>>)
    \/ (UpdateKeyLeft /\ UNCHANGED <<fetchVars, toolVars>>)
    \/ (UpdateKeyRight /\ UNCHANGED <<fetchVars, toolVars>>)
    \/ (UpdateKeyEnter /\ UNCHANGED <<fetchVars, toolVars>>)
    \/ (\E key \in TableKeys : UpdateKeyOther(key) /\ UNCHANGED <<fetchVars, toolVars>>)
    \/ (\E w \in TermWidths : UpdateWindowSize(w) /\ UNCHANGED <<fetchVars, toolVars>>)

InitDash == DashInit /\ FetchIdle /\ ToolsIdle

\* The dashboard as the program runs it.
SpecDash == InitDash /\ [][DashNext]_vars

\* The runtime's scheduling: a message that has reached the event loop is
\* handed to Update, and the QuitMsg of tea.Quit is taken, unless the session
\* ends first.  Nothing makes a fetch return or the user press a key.
DashFairness ==
    /\ \A i \in 0..(MaxTabs - 1) :
           WF_vars(\E msg \in queue :
                      msg.userIndex = i /\ UpdateFetchEventsForUserMsg(msg)
                      /\ UNCHANGED <<fetchVars, toolVars>>)
    /\ WF_vars(QuitMsgTaken /\ UNCHANGED <<fetchVars, toolVars>>)

LiveNext ==
    \/ (Init /\ UNCHANGED <<fetchVars, toolVars>>)
    \/ (\E i \in DOMAIN tabs : fetchEventsForUser(i) /\ UNCHANGED <<fetchVars, toolVars>>)
    \/ (\E msg \in queue : UpdateFetchEventsForUserMsg(msg) /\ UNCHANGED <<fetchVars, toolVars>>)
    \/ (UpdateKeyQuit /\ UNCHANGED <<fetchVars, toolVars>>)
    \/ (QuitMsgTaken /\ UNCHANGED <<fetchVars, toolVars>>)
    \/ (UpdateKeyLeft /\ UNCHANGED <<fetchVars, toolVars>>)
    \/ (UpdateKeyRight /\ UNCHANGED <<fetchVars, toolVars>>)

\* The dashboard under the runtime's scheduling, with the quit and the tab
\* navigation keys as the user's input (no key for a table, no resize).
SpecDashLive == InitDash /\ [][LiveNext]_vars /\ DashFairness

LateNext ==
    \E i \in -1..MaxTabs : \E r \in FetchResults :
        SendLate(CompletionMsg(i, r)) /\ UNCHANGED <<fetchVars, toolVars>>

UpdateNext ==
    \/ (Init /\ UNCHANGED <<fetchVars, toolVars>>)
    \/ (\E i \in DOMAIN tabs : fetchEventsForUser(i) /\ UNCHANGED <<fetchVars, toolVars>>)
    \/ (\E msg \in queue : UpdateFetchEventsForUserMsg(msg) /\ UNCHANGED <<fetchVars, toolVars>>)
    \/ LateNext

\* Update's handling of completion messages under a runtime that may hand it
\* further completion messages, for any index, after the one of each fetch
\* (no key or resize message is sent).
SpecUpdate == InitDash /\ [][UpdateNext]_vars

\* ------------------------------------------------- properties of fetchEvents
\* The claims' own reading of the parameters, written without the model's
\* operators for the code's conditions.
StartTime == MaxTime
Listed(e) == Len(filterTypes) = 0 \/ \E i \in 1..Len(filterTypes) : filterTypes[i] = e.type
FirstN(s, c) == IF c > 0 THEN SubSeq(s, 1, Min(c, Len(s))) ELSE s
NonIncreasing(s) == \A i \in 1..(Len(s) - 1) : s[i].ts >= s[i + 1].ts

RECURSIVE IsSubseq(_, _)
IsSubseq(a, b) ==
    IF a = <<>> THEN TRUE
    ELSE IF b = <<>> THEN FALSE
    ELSE IF Head(a) = Head(b) THEN IsSubseq(Tail(a), Tail(b))
    ELSE IsSubseq(a, Tail(b))

\* A step of the range loop that inspects events[idx] (not a clock tick).
InspectStep == pc = "scan" /\ idx <= Len(events) /\ now' = now

\* The events of the source up to the one the range loop stands at.
ScannedPrefix ==
    IF requested = <<>> THEN <<>>
    ELSE SubSeq(src, 1, Min(Len(src), (Len(requested) - 1) * PageSize + Min(idx, Len(events))))

\* Inside the lookback window of a fetch during which the clock stands still,
\* and of a listed type.
Acceptable(e) == Listed(e) /\ (since = 0 \/ e.ts >= StartTime - since)

\* The clock has not advanced, and the source is newest-first if there is a
\* lookback: then the acceptable events are exactly the ones the scan accepts
\* until it ends.
SteadyNewestFirst == now = StartTime /\ (since = 0 \/ NonIncreasing(src))

\* The page that holds the c-th acceptable event of the source.
PageOfNthAcceptable(c) ==
    LET k == CHOOSE j \in 1..Len(src) :
                 /\ Len(SelectSeq(SubSeq(src, 1, j), Acceptable)) = c
                 /\ Acceptable(src[j])
    IN  (k + PageSize - 1) \div PageSize

\* C1: with a cap (count > 0) the accepted-event count never exceeds the cap
\* at any point of the scan and at most cap events are returned; without a
\* cap (count = 0) every inspected event that is inside the lookback window
\* and passes the type filter is accepted, every page the source offers is
\* asked for (as long as no event outside the window was met), and every
\* accepted event is returned: over a newest-first
\* source (any source when there is no lookback) the result is every event of
\* the source inside the window and of a listed type.
C1_CapNeverExceeded ==
    /\ [](count > 0 => /\ fetchedCount <= count
                       /\ Len(allEvents) <= count
                       /\ Len(ret.events) <= count)
    /\ [][(count = 0 /\ InspectStep
             /\ ~(since > 0 /\ events[idx].ts < now - since) /\ Listed(events[idx]))
          => (allEvents' = Append(allEvents, events[idx]) /\ pc' = "scan")]_vars
    /\ [][(count = 0 /\ pc = "pageEnd" /\ nextPage # 0 /\ ~cutoffHit /\ now' = now)
          => pc' = "request"]_vars
    /\ [](count = 0 /\ pc = "done" /\ ret.err # SourceUnavailable
          => /\ Len(ret.events) = Len(allEvents)
             /\ ~cutoffHit => requested = [p \in 1..NumPages |-> p]
             /\ SteadyNewestFirst => allEvents = SelectSeq(src, Acceptable))

C1_Witness ==
    /\ pc = "done"
    /\ count = 1
    /\ Len(ret.events) = 1
    /\ Len(SelectSeq(src, Listed)) > 1
    /\ since = 0

\* C2: with a lookback (since > 0) no event older than the clock minus the
\* lookback, as read when the event is inspected, is ever accepted, whatever
\* the order of the source; the clock only advances, so no accepted and no
\* returned event is older than the start of the fetch minus the lookback.
C2_NoEventOlderThanLookback ==
    /\ [][(since > 0 /\ allEvents' # allEvents)
          => /\ Len(allEvents') = Len(allEvents) + 1
             /\ allEvents'[Len(allEvents')].ts >= now - since]_vars
    /\ [](since > 0 => \A i \in 1..Len(allEvents) :
                           allEvents[i].ts >= StartTime - since)
    /\ [](since > 0 /\ pc = "done"
          => \A i \in 1..Len(ret.events) :
                 now - ret.events[i].Date[2] >= StartTime - since)

C2_Witness ==
    /\ pc = "done"
    /\ since > 0
    /\ cutoffHit
    /\ Len(ret.events) > 0
    /\ ~NonIncreasing(src)

\* C3: once the lookback break has fired, no further event is accepted and
\* no further page is requested.
C3_LookbackStopsTheScan ==
    [][cutoffHit => (allEvents' = allEvents /\ requested' = requested)]_vars

\* C4 as claimed: an event whose timestamp equals now - since is excluded.
C4_BoundaryEventExcluded ==
    [][(InspectStep /\ since > 0 /\ events[idx].ts = now - since)
       => allEvents' = allEvents]_vars

\* C4 as amended: an event whose timestamp equals now - since is inside the
\* window (it is accepted when it passes the type filter, and the scan of the
\* page is not stopped by it); every strictly older event is excluded and
\* stops the scan of its page.
C4_BoundaryEventKept ==
    /\ [][(InspectStep /\ since > 0 /\ events[idx].ts = now - since)
          => /\ cutoffHit' = cutoffHit
             /\ Listed(events[idx]) => allEvents' = Append(allEvents, events[idx])]_vars
    /\ [][(InspectStep /\ since > 0 /\ events[idx].ts < now - since)
          => (allEvents' = allEvents /\ pc' = "pageEnd")]_vars

C4_Witness ==
    /\ pc = "done"
    /\ since > 0
    /\ now = StartTime
    /\ \E i \in 1..Len(allEvents) : allEvents[i].ts = now - since
    /\ \E j \in 1..Len(src) : src[j].ts < now - since

\* C5: with a type filter every accepted and every returned event has a
\* listed type, skipped events are not counted, and (no lookback, no failed
\* request) the result is the first count events of the source that pass the
\* filter, all of them when count = 0.
C5_FilterAndCap ==
    /\ \A i \in 1..Len(allEvents) : Listed(allEvents[i])
    /\ \A i \in 1..Len(ret.events) :
           Len(filterTypes) > 0 => \E k \in 1..Len(filterTypes) : filterTypes[k] = ret.events[i].Type
    /\ fetchedCount = Len(allEvents)
    /\ (pc = "done" /\ since = 0 /\ ret.err # SourceUnavailable)
       => /\ allEvents = FirstN(SelectSeq(src, Listed), count)
          /\ Len(ret.events) = Len(allEvents)

C5_Witness ==
    /\ pc = "done"
    /\ Len(filterTypes) > 0
    /\ count = 1
    /\ since = 0
    /\ Len(src) = 3
    /\ ~Listed(src[1])
    /\ Listed(src[2])
    /\ Len(ret.events) = 1

\* C6: the accepted events are a subsequence of the source's events in page
\* order then in-page order, taken from the part scanned so far; the returned
\* items are the accepted events one for one in the same order; so over a
\* source that is non-increasing in timestamp the result is non-increasing.
C6_SourceOrderPreserved ==
    /\ IsSubseq(allEvents, ScannedPrefix)
    /\ NonIncreasing(src) => NonIncreasing(allEvents)
    /\ (pc = "done" /\ ret.err = Nil)
       => /\ Len(ret.events) = Len(allEvents)
          /\ \A i \in 1..Len(allEvents) :
                 /\ ret.events[i].Type = allEvents[i].type
                 /\ now - ret.events[i].Date[2] = allEvents[i].ts

C6_Witness ==
    /\ pc = "done"
    /\ Len(ret.events) = 2
    /\ Len(src) = 3
    /\ NonIncreasing(src)
    /\ allEvents[1].ts > allEvents[2].ts
    /\ allEvents[1].type # allEvents[2].type

\* C7: once the accepted count reaches the cap the scan is over: nothing more
\* is accepted or requested; and when the source holds at least count
\* acceptable events (no failed request; newest-first source if there is a
\* lookback) exactly count events are returned and the pages requested are
\* exactly those up to the page that holds the count-th acceptable event.
C7_CapStopsPagination ==
    /\ [](count > 0 /\ fetchedCount >= count
          => fetchedCount = count /\ pc \in {"pageEnd", "done"})
    /\ [][(count > 0 /\ fetchedCount >= count)
          => (requested' = requested /\ allEvents' = allEvents)]_vars
    /\ []((pc = "done" /\ count > 0 /\ ret.err # SourceUnavailable
           /\ SteadyNewestFirst
           /\ Len(SelectSeq(src, Acceptable)) >= count)
          => /\ ret.err = Nil
             /\ Len(ret.events) = count
             /\ requested = [p \in 1..PageOfNthAcceptable(count) |-> p])

C7_Witness ==
    /\ pc = "done"
    /\ count > 0
    /\ since > 0
    /\ SteadyNewestFirst
    /\ Len(ret.events) = count
    /\ Len(requested) < NumPages
    /\ Len(filterTypes) > 0
    /\ ~Listed(src[1])

\* C8: a failed page request ends the fetch at once: the error is returned
\* with no events, whatever was accepted from earlier pages, and the failing
\* request is the last one made.
C8_FailedRequestAborts ==
    /\ [](ret.err = SourceUnavailable => pc = "done" /\ ret.events = <<>>)
    /\ [][(pc = "request" /\ pc' # "scan" /\ now' = now)
          => /\ pc' = "done"
             /\ ret'.err = SourceUnavailable
             /\ ret'.events = <<>>
             /\ requested' = Append(requested, IF page = 0 THEN 1 ELSE page)]_vars
    /\ [][pc = "done" => requested' = requested]_vars

C8_Witness ==
    /\ pc = "done"
    /\ ret.err = SourceUnavailable
    /\ Len(allEvents) > 0
    /\ Len(requested) = 2

\* ----------------------------------------------- properties of the dashboard
\* Update handles the completion message msg in this step: it leaves the
\* queue of undelivered messages.
Handles(msg) == msg \in queue /\ queue' = queue \ {msg}

\* C9: once a tab is TabLoaded or TabError, handling a further completion
\* message for its index leaves the tab (state, events, table, err) unchanged.
C9_LateCompletionIsNoOp ==
    [][\A msg \in queue :
          (/\ Handles(msg)
           /\ msg.userIndex \in DOMAIN tabs
           /\ tabs[msg.userIndex].state \in {TabLoaded, TabError})
          => tabs'[msg.userIndex] = tabs[msg.userIndex]]_vars

\* C10: handling the completion message of tab i changes no tab but i and not
\* the active index; the message alone decides what tab i becomes (TabError
\* for an error, TabLoaded otherwise), whatever the state of its siblings.
C10_CompletionTouchesOnlyItsTab ==
    [][\A msg \in queue :
          Handles(msg)
          => /\ DOMAIN tabs' = DOMAIN tabs
             /\ \A j \in DOMAIN tabs : j # msg.userIndex => tabs'[j] = tabs[j]
             /\ activeTab' = activeTab
             /\ msg.userIndex \in DOMAIN tabs
                => tabs'[msg.userIndex].state =
                       IF msg.err = Nil THEN TabLoaded ELSE TabError]_vars

C10_Witness ==
    \E i, j \in DOMAIN tabs :
        /\ tabs[i].state = TabError
        /\ tabs[i].err = SourceUnavailable
        /\ tabs[j].state = TabLoaded
        /\ Len(tabs[j].table.rows) = 2
        /\ activeTab = i

\* C11: completion messages of different tabs commute.  Whenever two of them
\* are waiting, handling them in either order gives the same tabs; a step that
\* handles one of them leaves the other with the effect it would have had before
\* it; and tab navigation, which reads no tab, changes neither the tabs nor the
\* waiting messages, as handling a message does not change the active index.
C11_CompletionsCommute ==
    /\ [](\A m1, m2 \in queue :
             m1.userIndex # m2.userIndex
             => ApplyCompletion(ApplyCompletion(tabs, m1), m2)
                    = ApplyCompletion(ApplyCompletion(tabs, m2), m1))
    /\ [][\A m1, m2 \in queue :
             (Handles(m1) /\ m1.userIndex # m2.userIndex)
             => ApplyCompletion(tabs', m2)
                    = ApplyCompletion(ApplyCompletion(tabs, m2), m1)]_vars
    /\ [][activeTab' # activeTab => (tabs' = tabs /\ queue' = queue)]_vars

C11_Witness ==
    \E m2 \in queue : \E i \in DOMAIN tabs :
        /\ i # m2.userIndex
        /\ tabs[i].state = TabError
        /\ m2.err = Nil
        /\ tabs[m2.userIndex].state = TabLoading

\* The completion messages waiting for tab i.
MessagesFor(i) == {m \in queue : m.userIndex = i}

\* C12: Init starts exactly one fetch per tab and nothing before it; every fetch
\* ends with exactly one completion message, which carries the index of the tab
\* it was started for, and changes no tab and not the active index.  So each tab
\* has, at any time after Init, exactly one of: its fetch running, its one
\* message waiting, or its message handled.
C12_OneFetchPerTab ==
    /\ [](~started => (running = {} /\ queue = {}))
    /\ [](\A m \in queue : m.userIndex \in DOMAIN tabs)
    /\ [](started
          => \A i \in DOMAIN tabs :
                 (IF i \in running THEN 1 ELSE 0)
                 + Cardinality(MessagesFor(i))
                 + (IF tabs[i].state # TabLoading THEN 1 ELSE 0) = 1)
    /\ [][(~started /\ started')
          => (running' = DOMAIN tabs /\ queue' = queue /\ tabs' = tabs)]_vars
    /\ [][(started /\ running' # running)
          => \E i \in running :
                 /\ running' = running \ {i}
                 /\ \E m \in queue' :
                        /\ m \notin queue
                        /\ m.userIndex = i
                        /\ queue' = queue \cup {m}
                 /\ tabs' = tabs
                 /\ activeTab' = activeTab]_vars

C12_Witness ==
    /\ started
    /\ NumTabs = 2
    /\ running = {0}
    /\ tabs[1].state = TabLoading
    /\ Cardinality(MessagesFor(1)) = 1

\* C13: a fetch that never returns stalls only its own tab.  In every run in
\* which the fetch of tab i runs for ever (tab i stays TabLoading), a completion
\* message of any other tab j is handled, so that tab j leaves TabLoading,
\* unless the session is ended first; and as long as the session runs, the
\* quit and tab navigation keys are handled in every state.
C13_HungFetchStallsOnlyItsTab ==
    /\ \A i, j \in 0..(MaxTabs - 1) :
           (i # j)
           => (<>[](i \in running /\ tabs[i].state = TabLoading)
               => ((MessagesFor(j) # {})
                   ~> (quit \/ (j \in DOMAIN tabs /\ tabs[j].state # TabLoading))))
    /\ []((started /\ ~quit /\ running # {})
          => (/\ ENABLED UpdateKeyQuit
              /\ ENABLED UpdateKeyLeft
              /\ ENABLED UpdateKeyRight))

C13_Witness ==
    \E i, j \in DOMAIN tabs :
        /\ i \in running
        /\ tabs[i].state = TabLoading
        /\ tabs[j].state = TabLoaded
        /\ activeTab = j
        /\ j = 1
        /\ ~quitSent

\* C14: a fetch that is left with zero events (fetchEvents then returns the
\* "no events found" result) puts its tab into TabLoaded with no events and no
\* rows, shown with the "No events found" text, and not into TabError.
C14_EmptyFetchLoadsEmptyTab ==
    [][\A msg \in queue :
          (/\ Handles(msg)
           /\ msg.err = NoResults
           /\ msg.userIndex \in DOMAIN tabs
           /\ tabs[msg.userIndex].state = TabLoading)
          => /\ tabs'[msg.userIndex].state = TabLoaded
             /\ tabs'[msg.userIndex].events = <<>>
             /\ tabs'[msg.userIndex].table.rows = <<>>
             /\ (activeTab = msg.userIndex => View' = "No events found")]_vars

\* C15: tab navigation saturates.  The left key on index 0 and the right key
\* on the last index leave the active index as it is; elsewhere they move it by
\* exactly one, down resp. up, never around the ends; neither changes a tab.
\* At all times 0 <= activeTab < number of tabs, or there is no tab.
C15_TabNavigationSaturates ==
    /\ [](NumTabs = 0 \/ (0 <= activeTab /\ activeTab < NumTabs))
    /\ [][UpdateKeyLeft
          => /\ activeTab' = (IF activeTab = 0 THEN 0 ELSE activeTab - 1)
             /\ tabs' = tabs]_vars
    /\ [][UpdateKeyRight
          => /\ activeTab' = (IF activeTab = NumTabs - 1 THEN activeTab
                                                       ELSE activeTab + 1)
             /\ tabs' = tabs]_vars
    /\ [][activeTab' # activeTab
          => (activeTab' = activeTab - 1 \/ activeTab' = activeTab + 1)]_vars

C15_Witness ==
    /\ NumTabs = 2
    /\ activeTab = 1
    /\ tabs[0].state = TabError
    /\ tabs[1].state = TabLoading
    /\ ENABLED UpdateKeyRight

\* C16: a completion message whose index is no index of the tabs (any index
\* outside 0..len(tabs)-1) is ignored: handling it raises no error (Update does
\* not panic) and leaves every tab and the active index unchanged.
C16_OutOfRangeCompletionIgnored ==
    [][\A msg \in queue :
          (Handles(msg) /\ msg.userIndex \notin DOMAIN tabs)
          => /\ tabs' = tabs
             /\ activeTab' = activeTab
             /\ ~crashed']_vars

\* C17: input that is no quit, tab navigation or enter key goes to the table
\* of the active tab if and only if that tab is TabLoaded: the table of a loaded
\* active tab becomes what table.Update makes of it (a down key above the last
\* row moves the cursor by one), with the active tab TabLoading or TabError the
\* whole dashboard state stays as it is, and no other tab ever changes.
C17_OtherInputGoesToActiveLoadedTable ==
    [][\A key \in TableKeys :
          UpdateKeyOther(key)
          => /\ \A j \in DOMAIN tabs : j # activeTab => tabs'[j] = tabs[j]
             /\ tabs[activeTab].state # TabLoaded => UNCHANGED <<dashVars, toolVars>>
             /\ tabs[activeTab].state = TabLoaded
                => /\ tabs' = [tabs EXCEPT ![activeTab].table =
                                   TableUpdateKey(tabs[activeTab].table, key)]
                   /\ (key = "down" /\ tabs[activeTab].table.cursor
                                          < Len(tabs[activeTab].events) - 1)
                      => tabs'[activeTab].table.cursor
                             = tabs[activeTab].table.cursor + 1
             /\ UNCHANGED <<activeTab, queue, running, opened, quitSent, quit>>]_vars

C17_Witness ==
    /\ NumTabs = 2
    /\ activeTab = 1
    /\ tabs[1].state = TabLoaded
    /\ tabs[1].table.cursor = 1
    /\ tabs[0].state = TabLoaded
    /\ tabs[0].table.cursor = 0
    /\ Len(tabs[0].events) = 2

\* The repository name of the event under the cursor of the active tab.
RepoUnderCursor == tabs[activeTab].events[tabs[activeTab].table.cursor + 1].Repository

\* C18: enter hands a URL to the opener only when the active tab is TabLoaded
\* and its table has a selected row, and the URL is "https://github.com/"
\* followed by the repository name of that row; with the active tab TabLoading
\* or TabError nothing is opened; enter never changes a tab or the active index.
C18_EnterOpensSelectedRepository ==
    /\ [][UpdateKeyEnter
          => /\ tabs' = tabs
             /\ activeTab' = activeTab
             /\ tabs[activeTab].state # TabLoaded => opened' = opened
             /\ (/\ tabs[activeTab].state = TabLoaded
                 /\ tabs[activeTab].table.cursor < Len(tabs[activeTab].events))
                => opened' = "https://github.com/" \o RepoUnderCursor]_vars
    /\ [][opened' # opened
          => /\ tabs[activeTab].state = TabLoaded
             /\ tabs[activeTab].table.cursor < Len(tabs[activeTab].events)
             /\ opened' = "https://github.com/" \o RepoUnderCursor]_vars

C18_Witness ==
    /\ NumTabs = 2
    /\ activeTab = 1
    /\ tabs[0].state = TabLoading
    /\ tabs[1].state = TabLoaded
    /\ tabs[1].table.cursor = 1
    /\ opened = "https://github.com/" \o tabs[1].events[2].Repository

\* C19: a quit key ends the session from every dashboard state.  While the
\* session runs the quit key is handled whatever number of fetches are still
\* running; handling it changes no tab and sends the QuitMsg, which the runtime
\* then takes; and once the session has ended no tab, active index or opened
\* URL changes any more, whatever completion message arrives.
C19_QuitEndsSession ==
    /\ []((started /\ ~quit) => ENABLED UpdateKeyQuit)
    /\ [][UpdateKeyQuit
          => (quitSent' /\ tabs' = tabs /\ activeTab' = activeTab)]_vars
    /\ (quitSent ~> quit)
    /\ [][quit => (/\ quit'
                   /\ tabs' = tabs
                   /\ activeTab' = activeTab
                   /\ opened' = opened)]_vars

C19_Witness ==
    /\ quit
    /\ NumTabs = 2
    /\ running = {0}
    /\ tabs[0].state = TabLoading
    /\ tabs[1].state = TabLoading
    /\ MessagesFor(1) # {}

\* The column widths the layout code gives the active tab at the current
\* terminal width.
ActiveLayout == NewTable(tabs[activeTab].events).cols

\* C20: a resize of the terminal makes the dashboard lay out the active tab
\* again at once (a loaded active tab then has the column widths computed from
\* the new width) and changes no other tab.
C20_ResizeRelayoutsActiveTab ==
    [][termWidth' # termWidth
          => /\ tabs[activeTab].state = TabLoaded
                => tabs'[activeTab].table.cols = ActiveLayout'
             /\ \A j \in DOMAIN tabs : j # activeTab => tabs'[j] = tabs[j]]_vars

\* ------------------------------------------------ the layout step taken alone
\* The bound of the layout runs: layouts computed in one run.
MaxLayouts == 2

MaxTableHeightSingle == 30

\* tui.go 127-133: the width of the Description column of the single-user table.
DescWidthSingle(evs) ==
    LET rightPadding == Spacing * 3
        descWidth == Width - MaxLen(evs, "Date") - MaxLen(evs, "Repository")
                     - Spacing - rightPadding
    IN  IF descWidth < MinDescWidth THEN MinDescWidth ELSE descWidth

\* tui.go 142-145
TableHeightSingle(evs) ==
    IF Len(evs) + 1 > MaxTableHeightSingle THEN MaxTableHeightSingle
    ELSE Len(evs) + 1

\* tui.go 136-153: table.New with the columns, the rows, focus and height.
NewTableSingle(evs) ==
    [rows |-> [i \in 1..Len(evs) |->
                  <<evs[i].Date, evs[i].Repository, evs[i].Description>>],
     cols |-> <<MaxLen(evs, "Date") + Spacing,
                MaxLen(evs, "Repository") + Spacing,
                DescWidthSingle(evs)>>,
     height |-> TableHeightSingle(evs),
     cursor |-> 0,
     focus |-> TRUE]

\* Terminal widths of the layout runs: none, narrower than the other columns,
\* narrow and wide.
LayoutWidths == {NoTerminal, 0, 5, 30, 100}

\* Event lists of the layout runs: short ones and ones around the two height caps.
Repeat(item, n) == [i \in 1..n |-> item]
LayoutRows ==
    EventLists \cup {Repeat(ItemB, n) : n \in {MaxTableHeight - 1, MaxTableHeight,
                                              MaxTableHeightSingle - 1,
                                              MaxTableHeightSingle}}

LayoutInit ==
    /\ termWidth \in LayoutWidths
    /\ layRows \in LayoutRows
    /\ layOut = <<>>

\* A layout as the runs record it: who computed it, at which terminal width,
\* and the table it made.
Layout(by, t) ==
    [by |-> by, width |-> termWidth, cols |-> t.cols, height |-> t.height,
     rows |-> Len(t.rows)]

\* part_001 116-178: setupTableForTab lays out a tab holding layRows.
LayoutTab ==
    /\ Len(layOut) < MaxLayouts
    /\ layOut' = Append(layOut,
                    Layout("setupTableForTab",
                           setupTableForTab([NewTab EXCEPT !.events = layRows]).table))
    /\ UNCHANGED <<layRows, dashVars, fetchVars, parseVars, startVars, singleVars>>

\* tui.go 98-153: the single-user Update lays out layRows.
LayoutSingle ==
    /\ Len(layOut) < MaxLayouts
    /\ layOut' = Append(layOut, Layout("Update", NewTableSingle(layRows)))
    /\ UNCHANGED <<layRows, dashVars, fetchVars, parseVars, startVars, singleVars>>

\* The terminal is resized between two layouts.
LayoutResize(w) ==
    /\ Len(layOut) < MaxLayouts
    /\ w # termWidth
    /\ termWidth' = w
    /\ UNCHANGED <<layRows, layOut, fetchVars, parseVars, startVars, singleVars, tabs, activeTab, started,
                   running, queue, quitSent, quit, crashed, late, opened>>

LayoutNext ==
    \/ LayoutTab
    \/ LayoutSingle
    \/ \E w \in LayoutWidths : LayoutResize(w)

InitLayout == LayoutInit /\ DashOff /\ FetchIdle /\ ParseIdle /\ StartIdle /\ SingleIdle

\* The layout step applied to any of the widths and event lists above.
SpecLayout == InitLayout /\ [][LayoutNext]_vars

\* The greatest length of a field over the events evs.
Widest(evs, field) ==
    CHOOSE n \in {Len(evs[i][field]) : i \in DOMAIN evs} :
        \A i \in DOMAIN evs : Len(evs[i][field]) <= n

\* C21: the layout is a function of the terminal width and the rows alone: two
\* layouts of the same rows by the same code at the same width have the same
\* column widths and height.  The date and repository columns are the widest
\* date resp. repository name plus the spacing of 4; the description column is
\* what the width (80 without a terminal) leaves after the widest date, the
\* widest repository name, the spacing and the right margin (12, and 20 more
\* for the tab bar in the dashboard), and at least 20 at every width.
C21_LayoutIsAFunctionOfWidthAndRows ==
    \A i \in DOMAIN layOut :
        LET o == layOut[i]
            w == IF o.width = -1 THEN 80 ELSE o.width
            margin == IF o.by = "Update" THEN 12 ELSE 12 + 20
            left == w - Widest(layRows, "Date") - Widest(layRows, "Repository")
                    - 4 - margin
        IN  /\ o.cols[1] = Widest(layRows, "Date") + 4
            /\ o.cols[2] = Widest(layRows, "Repository") + 4
            /\ o.cols[3] = (IF left < 20 THEN 20 ELSE left)
            /\ o.cols[3] >= 20
            /\ o.rows = Len(layRows)
            /\ \A j \in DOMAIN layOut :
                   (layOut[j].by = o.by /\ layOut[j].width = o.width)
                   => layOut[j] = o

C21_Witness ==
    /\ Len(layOut) = 2
    /\ layOut[1].by = "setupTableForTab"
    /\ layOut[2].by = "setupTableForTab"
    /\ layOut[1].width = 5
    /\ layOut[2].width = 5
    /\ layOut[1].cols[3] = 20
    /\ Len(layRows) = 2

\* ------------------------------------------------------ parseExtendedDuration
\* A string is the sequence of its characters.  An int and a time.Duration are
\* 64-bit two's complement numbers, here the sequence of their 8 bytes, lowest
\* first; arithmetic on them wraps as Go's does.
Int64Bytes == 8

Digits == <<"0", "1", "2", "3", "4", "5", "6", "7", "8", "9">>
IsDigit(c) == \E v \in 1..10 : Digits[v] = c
DigitValue(c) == (CHOOSE v \in 1..10 : Digits[v] = c) - 1

\* unicode.IsSpace on the characters tried.
IsSpace(c) == c \in {" ", "\t", "\n"}

\* tui.go 464: strings.TrimSpace
RECURSIVE TrimLeft(_)
TrimLeft(s) == IF s # <<>> /\ IsSpace(Head(s)) THEN TrimLeft(Tail(s)) ELSE s
RECURSIVE TrimRight(_)
TrimRight(s) ==
    IF s # <<>> /\ IsSpace(s[Len(s)]) THEN TrimRight(SubSeq(s, 1, Len(s) - 1))
    ELSE s
TrimSpace(s) == TrimRight(TrimLeft(s))

\* tui.go 463-464: FindStringSubmatch of ^(\d+)([smhdw])$: the match and its
\* two groups, or nothing.
Units == {"s", "m", "h", "d", "w"}
FindStringSubmatchBrokenUnanchored(t) ==
    IF \E k \in 2..Len(t) :
           t[k] \in Units /\ \A i \in 1..(k - 1) : IsDigit(t[i])
    THEN LET k == CHOOSE k \in 2..Len(t) :
                      t[k] \in Units /\ \A i \in 1..(k - 1) : IsDigit(t[i])
         IN  <<SubSeq(t, 1, k), SubSeq(t, 1, k - 1), <<t[k]>>>>
    ELSE <<>>
FindStringSubmatch(t) ==
    IF /\ Len(t) >= 2
       /\ t[Len(t)] \in Units
       /\ \A i \in 1..(Len(t) - 1) : IsDigit(t[i])
    THEN <<t, SubSeq(t, 1, Len(t) - 1), <<t[Len(t)]>>>>
    ELSE <<>>

\* The number 0 in n bytes.
Zero(n) == [i \in 1..n |-> 0]

\* x * k + c in the bytes of x: what does not fit is dropped (the number wraps).
RECURSIVE MulAdd(_, _, _)
MulAdd(x, k, c) ==
    IF x = <<>> THEN <<>>
    ELSE LET v == Head(x) * k + c
         IN  <<v % 256>> \o MulAdd(Tail(x), k, v \div 256)

\* The decimal number ds, added digit by digit to acc.
RECURSIVE ParseNat(_, _)
ParseNat(ds, acc) ==
    IF ds = <<>> THEN acc
    ELSE ParseNat(Tail(ds), MulAdd(acc, 10, DigitValue(Head(ds))))

\* tui.go 469: strconv.Atoi of a string of digits: the int, or a range error
\* if the number is above the greatest int (2^63 - 1).
Atoi(ds) ==
    LET v == ParseNat(ds, Zero(Len(ds) + Int64Bytes))
    IN  IF /\ \A i \in (Int64Bytes + 1)..Len(v) : v[i] = 0
           /\ v[Int64Bytes] < 128
        THEN [value |-> SubSeq(v, 1, Int64Bytes), err |-> Nil]
        ELSE [value |-> Zero(Int64Bytes), err |-> "value out of range"]

\* tui.go 476-487: the factors of the unit's length in nanoseconds
\* (time.Second = 1000 * 1000 * 1000, Minute = 60 Second, Hour = 60 Minute).
UnitFactors(unit) ==
    IF unit = "s" THEN <<1000, 1000, 1000>>
    ELSE IF unit = "m" THEN <<1000, 1000, 1000, 60>>
    ELSE IF unit = "h" THEN <<1000, 1000, 1000, 60, 60>>
    ELSE IF unit = "d" THEN <<1000, 1000, 1000, 60, 60, 24>>
    ELSE <<1000, 1000, 1000, 60, 60, 24, 7>>

\* x times each of the factors fs, wrapping in the bytes of x.
RECURSIVE MulAll(_, _)
MulAll(x, fs) == IF fs = <<>> THEN x ELSE MulAll(MulAdd(x, Head(fs), 0), Tail(fs))

InvalidDuration == "invalid duration"
InvalidNumber == "invalid number in duration"

\* tui.go 461-491
parseExtendedDuration(in) ==
    LET matches == FindStringSubmatch(TrimSpace(in))
    IN  IF Len(matches) # 3
        THEN [duration |-> Zero(Int64Bytes), err |-> InvalidDuration]
        ELSE LET a == Atoi(matches[2])
             IN  IF a.err # Nil
                 THEN [duration |-> Zero(Int64Bytes), err |-> InvalidNumber]
                 ELSE [duration |-> MulAll(a.value, UnitFactors(matches[3][1])),
                       err |-> Nil]

\* Arguments tried: every string of at most MaxInputLen of the characters
\* Chars, and longer ones around the limits of int and time.Duration.
MaxInputLen == 3
Chars == {" ", "\n", "0", "1", "2", "s", "m", "h", "d", "w", "-"}
LongInputs ==
    {<<" ", "1", "2", "h", " ">>,
     <<"\t", "1", "w", "\n">>,
     <<"1", "h", "2", "m">>,
     <<"1", " ", "0", "h">>,
     <<"+", "1", "0", "h">>,
     <<"1", ".", "5", "h">>,
     <<"0", "0", "7", "d">>,
     <<"1", "0", "6", "7", "5", "1", "d">>,
     <<"1", "0", "6", "7", "5", "2", "d">>,
     <<"2", "5", "6", "2", "0", "4", "7", "h">>,
     <<"2", "5", "6", "2", "0", "4", "8", "h">>,
     <<"1", "5", "2", "5", "0", "w">>,
     <<"1", "5", "2", "5", "1", "w">>,
     <<"1", "5", "3", "7", "2", "2", "8", "6", "7", "m">>,
     <<"1", "5", "3", "7", "2", "2", "8", "6", "8", "m">>,
     <<"9", "2", "2", "3", "3", "7", "2", "0", "3", "6", "s">>,
     <<"9", "2", "2", "3", "3", "7", "2", "0", "3", "7", "s">>,
     <<"9", "2", "2", "3", "3", "7", "2", "0", "3", "6", "8", "5", "4", "7", "7", "5", "8", "0", "7", "s">>,
     <<"9", "2", "2", "3", "3", "7", "2", "0", "3", "6", "8", "5", "4", "7", "7", "5", "8", "0", "8", "s">>,
     <<"1", "8", "4", "4", "6", "7", "4", "4", "0", "7", "3", "7", "0", "9", "5", "5", "1", "6", "1", "6", "s">>,
     <<"1", "8", "4", "4", "6", "7", "4", "4", "0", "7", "4", "s">>}
Inputs == SeqsUpTo(Chars, MaxInputLen) \cup LongInputs

ParseInit ==
    /\ input \in Inputs
    /\ parsed = NotParsed
    /\ parsedTrim = NotParsed

\* tui.go 461-491: parseExtendedDuration(input) is called.
Parse ==
    /\ parsed = NotParsed
    /\ parsed' = parseExtendedDuration(input)
    /\ UNCHANGED <<input, parsedTrim, layoutVars, startVars, singleVars, fetchVars, dashVars>>

\* tui.go 461-491: parseExtendedDuration(strings.TrimSpace(input)) is called.
ParseTrimmed ==
    /\ parsedTrim = NotParsed
    /\ parsedTrim' = parseExtendedDuration(TrimSpace(input))
    /\ UNCHANGED <<input, parsed, layoutVars, startVars, singleVars, fetchVars, dashVars>>

ParseNext == Parse \/ ParseTrimmed

InitParse == ParseInit /\ LayoutIdle /\ StartIdle /\ SingleIdle /\ FetchIdle /\ DashIdle

\* parseExtendedDuration applied to any of the arguments above.
SpecParse == InitParse /\ [][ParseNext]_vars

\* The part of s between its leading and its trailing white space.
Blank(c) == c \in {" ", "\t", "\n"}
Core(s) ==
    LET inner == {i \in DOMAIN s : ~Blank(s[i])}
    IN  IF inner = {} THEN <<>>
        ELSE SubSeq(s, CHOOSE i \in inner : \A j \in inner : i <= j,
                       CHOOSE i \in inner : \A j \in inner : j <= i)

\* t is one unsigned decimal integer followed by one unit letter.
WellFormed(t) ==
    /\ Len(t) >= 2
    /\ t[Len(t)] \in {"s", "m", "h", "d", "w"}
    /\ \A i \in 1..(Len(t) - 1) :
           t[i] \in {"0", "1", "2", "3", "4", "5", "6", "7", "8", "9"}

\* C22: parseExtendedDuration depends on its trimmed argument only: called on
\* a string and on the trimmed string it returns the same duration or the same
\* failure; and it succeeds only if the whole trimmed string is an unsigned
\* integer followed by exactly one of s, m, h, d, w; any other string (a sign,
\* inner white space, a second unit, text before or after) fails with
\* duration 0.
C22_ParseDependsOnTrimmedInputOnly ==
    /\ (parsed # NotParsed /\ parsedTrim # NotParsed) => parsed = parsedTrim
    /\ (parsed # NotParsed /\ parsed.err = Nil) => WellFormed(Core(input))
    /\ (parsed # NotParsed /\ ~WellFormed(Core(input)))
       => (parsed.err = InvalidDuration /\ parsed.duration = Zero(8))

C22_Witness ==
    /\ input = <<" ", "1", "2", "h", " ">>
    /\ parsed.err = Nil
    /\ parsedTrim = parsed

\* -------------------------------------------------------------------- startup
\* A token is a string; "" is the missing one.
FlagTokens == {"", "flag-token"}
EnvTokens == {"", "GITHUB_TOKEN-token"}
EnvApiTokens == {"", "GITHUB_API_TOKEN-token"}
UserTokens == {"", "user-token", "other-user-token"}

StartInit ==
    /\ cmdMode \in {"single", "multi"}
    /\ githubToken \in (IF cmdMode = "single" THEN FlagTokens ELSE {""})
    /\ env \in [GITHUB_TOKEN : EnvTokens, GITHUB_API_TOKEN : EnvApiTokens]
    /\ users \in (IF cmdMode = "multi"
                  THEN UNION {[1..n -> UserTokens] : n \in 1..MaxTabs}
                  ELSE {<<>>})
    /\ phase = "start"
    /\ apiTokens = <<>>
    /\ fetches = {}

\* tui.go 502-507 and part_001 17-24: the token of the flag resp. of the
\* account, else GITHUB_TOKEN, else GITHUB_API_TOKEN.
Resolve(token) ==
    IF token # "" THEN token
    ELSE IF env.GITHUB_TOKEN # "" THEN env.GITHUB_TOKEN
    ELSE env.GITHUB_API_TOKEN

\* tui.go 497-530: rootCmd.Run up to tea.NewProgram(initialModel(...)).
RunSingle ==
    /\ cmdMode = "single" /\ phase = "start"
    /\ githubToken' = Resolve(githubToken)
    /\ IF Resolve(githubToken) = ""
       THEN phase' = "exit" /\ apiTokens' = apiTokens
       ELSE phase' = "built" /\ apiTokens' = <<Resolve(githubToken)>>
    /\ UNCHANGED <<cmdMode, env, users, fetches, layoutVars, parseVars,
                   singleVars, fetchVars, dashVars>>

\* tui.go 66-84: the runtime calls Init, which starts fetchEventsCmd.
InitSingleModel ==
    /\ cmdMode = "single" /\ phase = "built"
    /\ fetches' = {[account |-> 1, token |-> apiTokens[1]]}
    /\ phase' = "running"
    /\ UNCHANGED <<cmdMode, githubToken, env, users, apiTokens, layoutVars,
                   parseVars, singleVars, fetchVars, dashVars>>

\* part_001 15-46: initialMultiUserModel(config) makes one tab per account.
initialMultiUserModel ==
    /\ cmdMode = "multi" /\ phase = "start"
    /\ apiTokens' = [i \in DOMAIN users |-> Resolve(users[i])]
    /\ phase' = "built"
    /\ UNCHANGED <<cmdMode, githubToken, env, users, fetches, layoutVars,
                   parseVars, singleVars, fetchVars, dashVars>>

\* part_001 48-67: the runtime calls Init, which starts fetchEventsForUser(i)
\* for every tab.
InitMultiUserModel ==
    /\ cmdMode = "multi" /\ phase = "built"
    /\ fetches' = {[account |-> i, token |-> apiTokens[i]] : i \in DOMAIN apiTokens}
    /\ phase' = "running"
    /\ UNCHANGED <<cmdMode, githubToken, env, users, apiTokens, layoutVars,
                   parseVars, singleVars, fetchVars, dashVars>>

StartNext ==
    \/ RunSingle
    \/ InitSingleModel
    \/ initialMultiUserModel
    \/ InitMultiUserModel

InitStart == StartInit /\ LayoutIdle /\ ParseIdle /\ SingleIdle /\ FetchIdle /\ DashIdle

\* The startup in both modes, for any tokens of the flag, the environment and
\* the accounts.
SpecStart == InitStart /\ [][StartNext]_vars

\* The credential of account i: its own token (the flag's in single-user
\* mode), else GITHUB_TOKEN, else GITHUB_API_TOKEN.
Credential(i) ==
    LET own == IF cmdMode = "single" THEN githubToken ELSE users[i]
    IN  IF own # "" THEN own
        ELSE IF env.GITHUB_TOKEN # "" THEN env.GITHUB_TOKEN
        ELSE env.GITHUB_API_TOKEN

\* C23: no fetch is started for an account whose credential is empty, and if
\* any account's credential is empty no fetch is started at all: the startup
\* stops before.
C23_NoFetchWithoutCredential ==
    /\ \A f \in fetches : f.token # ""
    /\ (\E i \in 1..(IF cmdMode = "single" THEN 1 ELSE Len(users)) :
            Credential(i) = "")
       => fetches = {}

\* The single-user part of C23.
SingleNeedsCredential ==
    cmdMode = "single" => \A f \in fetches : f.token # ""

\* C24: in every state of the dashboard each tab's fields agree with its state:
\* a TabLoading tab has no events, no table and no error; a TabLoaded tab has
\* events, a focused table with one row per event, and no error; a TabError
\* tab has an error, no events and no table.
C24_TabFieldsAgreeWithState ==
    \A i \in DOMAIN tabs :
        LET tab == tabs[i]
        IN  /\ tab.state \in {TabLoading, TabLoaded, TabError}
            /\ tab.state = TabLoading
               => (tab.events = <<>> /\ tab.err = "nil" /\ tab.table.rows = <<>>)
            /\ tab.state = TabLoaded
               => /\ tab.events # <<>>
                  /\ tab.err = "nil"
                  /\ Len(tab.table.rows) = Len(tab.events)
                  /\ Len(tab.table.cols) = 3
                  /\ tab.table.focus
            /\ tab.state = TabError
               => (tab.err # "nil" /\ tab.events = <<>> /\ tab.table.rows = <<>>)

C24_Witness ==
    /\ NumTabs = 2
    /\ tabs[0].state = TabLoaded
    /\ tabs[0].table.cursor = 1
    /\ tabs[1].state = TabError
    /\ tabs[1].err = NoResults
    /\ quit

\* The digits and the unit letter of a well-formed string.
MagnitudeOf(t) == SubSeq(t, 1, Len(t) - 1)
UnitOf(t) == t[Len(t)]

\* Seconds in one unit.
SecondsPer(unit) ==
    IF unit = "s" THEN 1
    ELSE IF unit = "m" THEN 60
    ELSE IF unit = "h" THEN 3600
    ELSE IF unit = "d" THEN 86400
    ELSE 604800

\* The exact number of nanoseconds written by the well-formed string t, in as
\* many bytes as it takes (no wrapping), and a duration in as many bytes.
ExactBytes(t) == Len(t) + 16
ExactNanos(t) ==
    MulAll(ParseNat(MagnitudeOf(t), Zero(ExactBytes(t))),
           <<SecondsPer(UnitOf(t)), 1000, 1000, 1000>>)
Widened(dur, n) == dur \o Zero(n - Len(dur))

\* C25: every accepted string with magnitude n gives n seconds for unit s,
\* 60 n for m, 3600 n for h, 86400 n for d and 604800 n for w (in nanoseconds);
\* and a magnitude of 0 with any unit is accepted and gives the duration 0.
C25_UnitTable ==
    parsed # NotParsed
    => /\ parsed.err = Nil
          => Widened(parsed.duration, ExactBytes(Core(input)))
                 = ExactNanos(Core(input))
       /\ (/\ WellFormed(Core(input))
           /\ \A i \in DOMAIN MagnitudeOf(Core(input)) :
                  MagnitudeOf(Core(input))[i] = "0")
          => (parsed.err = Nil /\ parsed.duration = <<0, 0, 0, 0, 0, 0, 0, 0>>)

\* C29: for every accepted magnitude the product of magnitude and unit length
\* in nanoseconds fits a 64-bit duration, and the returned duration is that
\* product: never negative, never zero for a magnitude above 0, never a
\* shorter time than the one written.
C29_NoWrapAround ==
    (parsed # NotParsed /\ parsed.err = Nil)
    => LET exact == ExactNanos(Core(input))
       IN  /\ \A i \in 9..Len(exact) : exact[i] = 0
           /\ exact[8] < 128
           /\ parsed.duration[8] < 128
           /\ parsed.duration = SubSeq(exact, 1, 8)

\* ------------------------------------------------- the single-user program
\* tui.go 70-73: the message of the one fetch.
FetchEventsMsg(r) == [events |-> r.events, err |-> r.err]

\* tui.go 56-64, 540: the program is built on initialModel(...).
SingleInit ==
    /\ model = NewModel
    /\ tabs = <<>>
    /\ activeTab = 0
    /\ started = FALSE
    /\ running = {}
    /\ queue = {}
    /\ quitSent = FALSE
    /\ quit = FALSE
    /\ crashed = FALSE
    /\ opened = ""
    /\ late = 0
    /\ termWidth \in TermWidths

\* tui.go 66-68: the runtime calls Init, which starts the fetch command.
ModelInit ==
    /\ ~started
    /\ started' = TRUE
    /\ running' = {0}
    /\ UNCHANGED <<model, tabs, activeTab, queue, quitSent, quit, crashed, late,
                   opened, termWidth, layoutVars, parseVars, startVars, fetchVars>>

\* tui.go 76-84: the fetch command returns its message.
fetchEventsCmd ==
    /\ running # {}
    /\ \E r \in FetchResults : queue' = queue \cup {FetchEventsMsg(r)}
    /\ running' = {}
    /\ UNCHANGED <<model, tabs, activeTab, started, quitSent, quit, crashed, late,
                   opened, termWidth, layoutVars, parseVars, startVars, fetchVars>>

\* tui.go 92-93: the model of a failed fetch.
FailedModelBrokenDropsError(mm, msg) == mm
FailedModel(mm, msg) == [mm EXCEPT !.err = msg.err]

\* tui.go 96-169: the model of a successful fetch.
LoadedModel(mm, msg) ==
    [mm EXCEPT !.events = msg.events,
               !.tableHeight = TableHeightSingle(msg.events),
               !.table = NewTableSingle(msg.events)]

\* tui.go 91-169: Update handles the fetchEventsMsg msg.
ModelUpdateFetchEventsMsg(msg) ==
    /\ Handling
    /\ msg \in queue
    /\ queue' = queue \ {msg}
    /\ IF msg.err # Nil
       THEN /\ model' = FailedModel(model, msg)
            /\ quitSent' = TRUE
            /\ crashed' = crashed
       ELSE IF LayoutPanics(msg.events)
       THEN /\ model' = model
            /\ quitSent' = quitSent
            /\ crashed' = TRUE
       ELSE /\ model' = LoadedModel(model, msg)
            /\ quitSent' = quitSent
            /\ crashed' = crashed
    /\ UNCHANGED <<tabs, activeTab, started, running, quit, late, opened, termWidth,
                   layoutVars, parseVars, startVars, fetchVars>>

\* tui.go 178-179
ModelUpdateKeyQuit ==
    /\ Handling
    /\ quitSent' = TRUE
    /\ UNCHANGED <<model, tabs, activeTab, started, running, queue, quit, crashed,
                   late, opened, termWidth, layoutVars, parseVars, startVars, fetchVars>>

\* tui.go 180-181, 372-390 and 186: enter opens the selected row's repository;
\* the key then goes to the table, which has no use for it.
ModelUpdateKeyEnter ==
    /\ Handling
    /\ opened' = IF HasSelectedRow(model.table)
                 THEN RepoURL(SelectedRow(model.table))
                 ELSE opened
    /\ UNCHANGED <<model, tabs, activeTab, started, running, queue, quitSent, quit,
                   crashed, late, termWidth, layoutVars, parseVars, startVars, fetchVars>>

\* tui.go 186-187: any other key goes to the table, loaded or not.
ModelUpdateKeyOther(key) ==
    /\ Handling
    /\ model' = [model EXCEPT !.table = TableUpdateKey(@, key)]
    /\ UNCHANGED <<tabs, activeTab, started, running, queue, quitSent, quit,
                   crashed, late, opened, termWidth, layoutVars, parseVars, startVars, fetchVars>>

\* tui.go 191-201: what View renders.
ModelView ==
    IF model.err # Nil THEN "Error"
    ELSE IF Len(model.events) = 0 THEN "Loading events"
    ELSE "table"

SingleNext ==
    \/ ModelInit
    \/ fetchEventsCmd
    \/ \E msg \in queue : ModelUpdateFetchEventsMsg(msg)
    \/ ModelUpdateKeyQuit
    \/ (QuitMsgTaken /\ UNCHANGED <<fetchVars, toolVars>>)
    \/ ModelUpdateKeyEnter
    \/ \E key \in TableKeys : ModelUpdateKeyOther(key)
    \/ (\E w \in TermWidths : UpdateWindowSize(w) /\ UNCHANGED <<fetchVars, toolVars>>)

InitSingle == SingleInit /\ LayoutIdle /\ ParseIdle /\ StartIdle /\ FetchIdle

\* The single-user program as the runtime drives it.
SpecSingle == InitSingle /\ [][SingleNext]_vars

\* C26: in the single-user program every failed fetch, the one that is left
\* with zero events included, puts the error on the model and returns
\* tea.Quit; from then on the error stays, View shows the error, and the model
\* has no events and no table.
C26_FailedFetchEndsSingleSession ==
    /\ [][\A msg \in queue :
              (Handles(msg) /\ msg.err # Nil)
              => (model'.err = msg.err /\ quitSent')]_vars
    /\ [][model.err # Nil => model'.err = model.err]_vars
    /\ [](model.err # Nil
          => /\ ModelView = "Error"
             /\ model.events = <<>>
             /\ model.table.rows = <<>>
             /\ quitSent)

C26_Witness ==
    /\ model.err = NoResults
    /\ quit
    /\ queue = {}

\* ------------------------------------ the program around one call of fetchEvents
\* tui.go 244-253: the item as the tables show it.  The fetch above keeps the
\* Date and the Type of an item; the repository name is the account's one
\* repository and the description is made of the type.
Shown(it) == [Date |-> it.Date, Repository |-> "org/repo", Description |-> it.Type]
ShownResult(r) ==
    [events |-> [i \in 1..Len(r.events) |-> Shown(r.events[i])], err |-> r.err]

SingleAccount == tabs = <<>>

\* tui.go 540 and part_001 15-46: the program is built for one account, either
\* on initialModel or on initialMultiUserModel, and fetchEvents has its
\* arguments.
ProgramInit ==
    /\ FetchInit
    /\ model = NewModel
    /\ tabs \in {<<>>, [i \in 0..0 |-> NewTab]}
    /\ activeTab = 0
    /\ started = FALSE
    /\ running = {}
    /\ queue = {}
    /\ quitSent = FALSE
    /\ quit = FALSE
    /\ crashed = FALSE
    /\ opened = ""
    /\ late = 0
    /\ termWidth = DefaultWidth

\* tui.go 66-68, part_001 48-55: Init starts the fetch command.
ProgramStartSingle == SingleAccount /\ ModelInit
ProgramStartMulti == ~SingleAccount /\ Init /\ UNCHANGED <<fetchVars, toolVars>>

\* tui.go 203-260: the command runs fetchEvents.
FetchStep ==
    /\ running # {}
    /\ RequestPage \/ RequestFails \/ ScanEvent \/ ScanEnd \/ NextPage \/ Finish
    /\ UNCHANGED <<dashVars, toolVars>>

\* tui.go 78-82: the command wraps what fetchEvents returned.
fetchEventsCmdReturns ==
    /\ SingleAccount
    /\ running # {}
    /\ pc = "done"
    /\ queue' = queue \cup {FetchEventsMsg(ShownResult(ret))}
    /\ running' = {}
    /\ UNCHANGED <<model, tabs, activeTab, started, quitSent, quit, crashed, late,
                   opened, termWidth, layoutVars, parseVars, startVars, fetchVars>>

\* part_001 59-66: the command wraps what fetchEvents returned.
fetchEventsForUserReturns(userIndex) ==
    /\ ~SingleAccount
    /\ userIndex \in running
    /\ pc = "done"
    /\ queue' = queue \cup {CompletionMsg(userIndex, ShownResult(ret))}
    /\ running' = running \ {userIndex}
    /\ UNCHANGED <<tabs, activeTab, started, quitSent, quit, crashed, late,
                   opened, termWidth, fetchVars, toolVars>>

ProgramNext ==
    \/ ProgramStartSingle
    \/ ProgramStartMulti
    \/ FetchStep
    \/ fetchEventsCmdReturns
    \/ \E i \in DOMAIN tabs : fetchEventsForUserReturns(i)
    \/ \E msg \in queue : SingleAccount /\ ModelUpdateFetchEventsMsg(msg)
    \/ \E msg \in queue :
           ~SingleAccount /\ UpdateFetchEventsForUserMsg(msg)
                          /\ UNCHANGED <<fetchVars, toolVars>>
    \/ (QuitMsgTaken /\ UNCHANGED <<fetchVars, toolVars>>)

InitProgram == ProgramInit /\ LayoutIdle /\ ParseIdle /\ StartIdle

\* The program for one account, its fetch followed step by step.
SpecProgram == InitProgram /\ [][ProgramNext]_vars

\* C27: fetchEvents never returns both events and an error, and never returns
\* no events without an error; so no fetch message that is handled carries
\* success with zero events, and the layout step never panics on an empty
\* set of rows, with initialModel as with initialMultiUserModel.
C27_NoEmptySuccess ==
    /\ [](pc = "done" => ((ret.err = Nil) <=> (ret.events # <<>>)))
    /\ [](\A msg \in queue : (msg.err = Nil) <=> (msg.events # <<>>))
    /\ []~crashed
    /\ [](model.table # NoTable => model.table.rows # <<>>)
    /\ [](\A i \in DOMAIN tabs :
              tabs[i].state = TabLoaded => tabs[i].table.rows # <<>>)

C27_Witness ==
    /\ ~SingleAccount
    /\ ret.err = Nil
    /\ tabs[0].state = TabLoaded
    /\ Len(tabs[0].table.rows) = Len(ret.events)
    /\ Len(tabs[0].table.rows) > 1

\* ------------------------------------------------ the program's scheduling
\* The events of the sources followed here: a new push, an old push (before
\* every cutoff) and a new event of another type.
LiveEvents ==
    {[ts |-> MaxTime, type |-> "PushEvent"],
     [ts |-> 0, type |-> "PushEvent"],
     [ts |-> MaxTime, type |-> "ForkEvent"]}

\* part_001 15-46: the dashboard is built for one account and fetchEvents has
\* its arguments.
LiveInit ==
    /\ src \in SeqsUpTo(LiveEvents, MaxEvents)
    /\ count \in 0..MaxCount
    /\ since \in Lookbacks
    /\ filterTypes \in FilterChoices
    /\ pc = "request"
    /\ page = 0
    /\ events = <<>>
    /\ nextPage = 0
    /\ idx = 1
    /\ allEvents = <<>>
    /\ fetchedCount = 0
    /\ now = MaxTime
    /\ ret = [events |-> <<>>, err |-> Nil]
    /\ requested = <<>>
    /\ cutoffHit = FALSE
    /\ model = NewModel
    /\ tabs = [i \in 0..0 |-> NewTab]
    /\ activeTab = 0
    /\ started = FALSE
    /\ running = {}
    /\ queue = {}
    /\ quitSent = FALSE
    /\ quit = FALSE
    /\ crashed = FALSE
    /\ opened = ""
    /\ late = 0
    /\ termWidth = DefaultWidth

\* part_001 74-82: Update is handed a queued completion message.
Delivery ==
    \E msg \in queue :
        UpdateFetchEventsForUserMsg(msg) /\ UNCHANGED <<fetchVars, toolVars>>

ProgramLiveNext ==
    \/ ProgramStartMulti
    \/ FetchStep
    \/ \E i \in DOMAIN tabs : fetchEventsForUserReturns(i)
    \/ Delivery
    \/ (UpdateKeyQuit /\ UNCHANGED <<fetchVars, toolVars>>)
    \/ (QuitMsgTaken /\ UNCHANGED <<fetchVars, toolVars>>)

\* The runtime calls Init, every page request returns (the command goes on
\* with fetchEvents and hands back its result), a queued message is handed to
\* Update, and the QuitMsg of tea.Quit is taken.  Nothing makes the user press
\* a key.
ProgramFairness ==
    /\ WF_vars(ProgramStartMulti)
    /\ WF_vars(FetchStep)
    /\ WF_vars(\E i \in DOMAIN tabs : fetchEventsForUserReturns(i))
    /\ WF_vars(Delivery)
    /\ WF_vars(QuitMsgTaken /\ UNCHANGED <<fetchVars, toolVars>>)

InitProgramLive == LiveInit /\ LayoutIdle /\ ParseIdle /\ StartIdle

\* The dashboard for one account under the runtime's scheduling.
SpecProgramLive == InitProgramLive /\ [][ProgramLiveNext]_vars /\ ProgramFairness

\* C28: when every page request returns (the source's chain of next-page
\* tokens is finite: it has at most MaxEvents events), the fetch ends with a
\* return; with queued messages handed to Update, the tab then leaves
\* TabLoading, unless the session is ended first; and a tab that has left
\* TabLoading is TabLoaded or TabError in every later state.
C28_FetchEndsAndTabSettles ==
    /\ <>(pc = "done")
    /\ \A i \in 0..0 : <>(quit \/ tabs[i].state # TabLoading)
    /\ [][\A i \in DOMAIN tabs :
              tabs[i].state # TabLoading
              => tabs'[i].state \in {TabLoaded, TabError}]_vars

C28_Witness ==
    /\ pc = "done"
    /\ Len(requested) > 1
    /\ tabs[0].state = TabLoaded
    /\ ~quitSent

====
